---- MODULE Spec2Model ----
(***************************************************************************)
(* Model of backend/main.py: a FastAPI application that loads a Stable     *)
(* Diffusion pipeline at startup (load_model) and serves GET /health,      *)
(* POST /api/generate and GET /api/models from the module-global `pipe`.   *)
(*                                                                         *)
(* Python values are modelled as follows.                                  *)
(*   str            a sequence of one-character strings ("" is << >>)      *)
(*   Optional[T]    a sequence of length <= 1: None is << >>, x is <<x>>   *)
(*   datetime       an integer instant read from the wall clock            *)
(* The diffusion pipeline, the PNG encoder and base64 are library code;    *)
(* they are modelled as constructors over their arguments, so that two     *)
(* results are equal exactly when what they were computed from is equal.   *)
(***************************************************************************)
EXTENDS Integers, Sequences, FiniteSets, TLC

(* ------------------------------ bounds --------------------------------- *)

\* Requests the server accepts in one behaviour (waiting, running, answered).
MaxRequests == 2

\* Number of states of the process-wide default random generator of torch.
RngPeriod == 2

(* ----------------------- defaults of the request ----------------------- *)

DefaultSteps == 50
\* guidance_scale is a float, 7.5 by default; it is kept in tenths.
DefaultGuidanceTenths == 75
DefaultHeight == 512
DefaultWidth == 512

(* ---------------------------- Python values ---------------------------- *)

NoneVal == << >>
Some(x) == <<x>>
EmptyStr == << >>

\* Characters str.strip() removes (the ones used by the inputs below).
Whitespace == {" ", "\t"}

RECURSIVE LStrip(_)
LStrip(s) ==
    IF Len(s) > 0 /\ Head(s) \in Whitespace THEN LStrip(Tail(s)) ELSE s

RECURSIVE RStrip(_)
RStrip(s) ==
    IF Len(s) > 0 /\ s[Len(s)] \in Whitespace
    THEN RStrip(SubSeq(s, 1, Len(s) - 1))
    ELSE s

\* str.strip(): leading and trailing whitespace removed.
Strip(s) == RStrip(LStrip(s))

\* Truth value of an Optional object / of a str.
Truthy(v) == v # << >>

\* `request.negative_prompt or ""`
OrEmpty(neg) == IF neg = NoneVal \/ neg[1] = EmptyStr THEN EmptyStr ELSE neg[1]

(* ------------------------------- inputs -------------------------------- *)

\* Readings of datetime.now(). It is the naive local wall clock, which is
\* not monotonic (a daylight-saving change or a clock adjustment sets it
\* back), so a later reading may be smaller than an earlier one.
Instants == {1, 2}

Devices == {"cuda", "cpu"}

\* Request bodies that passed pydantic validation of ImageGenerationRequest:
\* empty and whitespace-only prompts, a prompt with whitespace around a
\* letter without seed, with seed 0 and with a negative prompt, and a request
\* with an empty negative prompt, another step count and a positive seed.
Body(p, n, st, sd) ==
    [prompt |-> p, negative_prompt |-> n, num_inference_steps |-> st,
     guidance_scale |-> DefaultGuidanceTenths, height |-> DefaultHeight,
     width |-> DefaultWidth, seed |-> sd]

Bodies ==
    { Body(EmptyStr, NoneVal, DefaultSteps, NoneVal),
      Body(<<" ", "\t">>, Some(<<"x">>), DefaultSteps, Some(0)),
      Body(<<" ", "a", " ">>, NoneVal, DefaultSteps, NoneVal),
      Body(<<" ", "a", " ">>, NoneVal, DefaultSteps, Some(0)),
      Body(<<" ", "a", " ">>, Some(<<"x">>), DefaultSteps, Some(0)),
      Body(<<"a">>, Some(EmptyStr), 20, Some(7)) }

VARIABLES
    device,      \* DEVICE, fixed when the module is imported
    pipe,        \* the global `pipe`: None or the pipeline object
    loadStatus,  \* "not_started", "loaded" or "failed": how load_model ended
    globalRng,   \* state of torch's default generator
    pending,     \* requests accepted, their handler not yet started
    frames,      \* generate_image coroutines inside the pipeline call
    log          \* the exchanges answered so far, in the order answered

vars == <<device, pipe, loadStatus, globalRng, pending, frames, log>>

(* ------------------------- library operations -------------------------- *)

\* torch.Generator(device).manual_seed(seed): a generator is its seed.
ManualSeed(seed) == <<"generator", seed>>

\* Where the pipeline draws its initial noise from: the generator it was
\* given, or torch's default generator when it was given None.
NoiseSource(generator, rng) ==
    IF generator = NoneVal THEN <<"default", rng>> ELSE generator[1]

\* pipe(...).images[0]. The sampling loop is library code; by its contract
\* the image is determined by the pipeline object, the keyword arguments and
\* the noise drawn.
Render(p, kwargs, noise) == [model |-> p, kwargs |-> kwargs, noise |-> noise]

\* image.save(buffered, format="PNG"); buffered.getvalue()
Png(image) == <<"PNG", image>>

\* base64.b64encode(data).decode()
B64(data) == <<"base64", data>>

\* datetime.isoformat()
IsoFormat(t) == <<"isoformat", t>>

\* The default generator advances each time noise is drawn from it.
Advance(rng) == (rng + 1) % RngPeriod

(* ----------------------------- exceptions ------------------------------ *)

\* Classes derived from Exception that the library calls raise.
ExceptionClasses == {"RuntimeError", "OSError"}

SeedingError == [type |-> "RuntimeError", msg |-> "CUDA error"]
PipelineError == [type |-> "RuntimeError", msg |-> "CUDA out of memory"]
EncodingError == [type |-> "OSError", msg |-> "encoder error"]

\* `except Exception as e` catches every instance of a class derived from
\* Exception.
CaughtOnlyRuntimeError(exc) == exc.type = "RuntimeError"
Caught(exc) == exc.type \in ExceptionClasses

(* ------------------------------ responses ------------------------------ *)

Response(code, detail, body) == [code |-> code, detail |-> detail, body |-> body]

\* raise HTTPException(status_code=code, detail=detail)
HTTPException(code, detail) == Response(code, detail, NoneVal)

NotLoaded == HTTPException(503, <<"Model not loaded. Please try again later.">>)
EmptyPrompt == HTTPException(400, <<"Prompt cannot be empty">>)
GenerationFailed(exc) ==
    HTTPException(500, <<"Error generating image: ", exc.msg>>)

\* What the framework answers when an exception leaves the handler.
InternalServerError == Response(500, <<"Internal Server Error">>, NoneVal)

\* ImageGenerationResponse(success=True, image_base64=..., timestamp=...,
\* generation_time=...); error keeps its default None.
ImageGenerationResponse(img_base64, start_time, generation_time) ==
    [success |-> TRUE, image_base64 |-> Some(img_base64), error |-> NoneVal,
     timestamp |-> IsoFormat(start_time), generation_time |-> generation_time]

(* ------------------------------ load_model ----------------------------- *)

\* How one run of load_model can go.
\*   from_pretrained_raises   the base model cannot be built or moved
\*   slicing_raises           enable_attention_slicing raises (cuda only)
\*   no_adapter               the adapter file does not exist
\*   adapter_fails            an adapter step before `pipe.unet = ...` raises
\*   state_dict_fails         load_state_dict raises, after `pipe.unet = ...`
\*   adapter_loaded           every adapter step succeeds
LoadFailures == {"from_pretrained_raises", "slicing_raises"}
LoadOutcomes ==
    LoadFailures \cup
        {"no_adapter", "adapter_fails", "state_dict_fails", "adapter_loaded"}

\* StableDiffusionPipeline.from_pretrained(MODEL_ID, ...).to(DEVICE)
BasePipeline(dev) == [device |-> dev, unet |-> "base"]

\* The value of the global `pipe` when load_model returns or raises.
load_model(p, dev, outcome) ==
    IF outcome = "from_pretrained_raises" THEN p
    ELSE IF outcome \in {"slicing_raises", "no_adapter", "adapter_fails"}
         THEN Some(BasePipeline(dev))
    ELSE IF outcome = "state_dict_fails"
         THEN Some([BasePipeline(dev) EXCEPT !.unet = "peft"])
    ELSE Some([BasePipeline(dev) EXCEPT !.unet = "peft_loaded"])

(* ------------------------------ event loop ----------------------------- *)

\* Positions of generate_image at which the coroutine awaits, giving the
\* event loop to other coroutines: its body holds no await.
AwaitsThePipeline == {"pipe"}
AwaitPoints == {}

\* A coroutine keeps the event loop from its start to its next await.
HoldsLoop(frame) == frame.at \notin AwaitPoints
LoopFree == \A k \in DOMAIN frames : ~HoldsLoop(frames[k])

Accepted == pending + Len(frames) + Len(log)

(* --------------------------- generate_image ---------------------------- *)

\* `not request.prompt or len(request.prompt.strip()) == 0`
PromptBlankNoStrip(prompt) == ~Truthy(prompt) \/ Len(prompt) = 0
PromptBlank(prompt) == ~Truthy(prompt) \/ Len(Strip(prompt)) = 0

\* The two checks in front of the try block: the response raised, or None
\* when the request passes both.
PrecheckPromptFirst(p, body) ==
    IF PromptBlank(body.prompt) THEN Some(EmptyPrompt)
    ELSE IF ~Truthy(p) THEN Some(NotLoaded)
    ELSE NoneVal
Precheck(p, body) ==
    IF ~Truthy(p) THEN Some(NotLoaded)
    ELSE IF PromptBlank(body.prompt) THEN Some(EmptyPrompt)
    ELSE NoneVal

\* `if request.seed is not None: generator = ...manual_seed(request.seed)`
\* `else: generator = None`
MakeGeneratorIfTruthy(seed) ==
    IF seed # NoneVal /\ seed[1] # 0 THEN Some(ManualSeed(seed[1])) ELSE NoneVal
MakeGenerator(seed) ==
    IF seed # NoneVal THEN Some(ManualSeed(seed[1])) ELSE NoneVal

\* The keyword arguments of the call pipe(...).
Kwargs(body, generator) ==
    [prompt |-> body.prompt,
     negative_prompt |-> OrEmpty(body.negative_prompt),
     num_inference_steps |-> body.num_inference_steps,
     guidance_scale |-> body.guidance_scale,
     height |-> body.height,
     width |-> body.width,
     generator |-> generator]

\* The except clause of the handler: the response for an exception raised
\* inside the try block.
OnException(exc) ==
    IF Caught(exc) THEN GenerationFailed(exc) ELSE InternalServerError

\* The global `pipe` after a run of generate_image: the handler only reads it.
PipeDroppedOnError(p, response) == IF response.code = 500 THEN NoneVal ELSE p
PipeAfterGenerate(p, response) == p

(* ------------------------------- history ------------------------------- *)

\* What the handler saw of the global state when it started.
Seen == [loaded |-> Truthy(pipe), load |-> loadStatus]

\* One answered request: the request, the start_time the handler took (if
\* it reached the try block), the pipeline calls made for it, the exception
\* raised inside the try block (if any) and the response.
Exchange(kind, request, seen, start_time, calls, raised, response) ==
    [kind |-> kind, request |-> request, seen |-> seen,
     start_time |-> start_time, calls |-> calls, raised |-> raised,
     escaped |-> (raised # NoneVal /\ ~Caught(raised[1])),
     response |-> response]

RemoveAt(s, k) == SubSeq(s, 1, k - 1) \o SubSeq(s, k + 1, Len(s))

(* ------------------------------- actions ------------------------------- *)

Init ==
    /\ device \in Devices
    /\ pipe = NoneVal
    /\ loadStatus = "not_started"
    /\ globalRng = 0          \* torch seeds its default generator with a fixed value
    /\ pending = 0
    /\ frames = << >>
    /\ log = << >>

\* @app.on_event("startup"): load_model() runs once, to its end. The
\* handlers below are callable in every load state: before startup has run
\* and after load_model raised, when the host keeps serving.
startup_event ==
    /\ loadStatus = "not_started"
    /\ LoopFree
    /\ \E outcome \in LoadOutcomes :
        /\ outcome = "slicing_raises" => device = "cuda"
        /\ pipe' = load_model(pipe, device, outcome)
        /\ loadStatus' = IF outcome \in LoadFailures THEN "failed" ELSE "loaded"
    /\ UNCHANGED <<device, globalRng, pending, frames, log>>

\* A request reaches the server and waits for the event loop.
Accept ==
    /\ Accepted < MaxRequests
    /\ pending' = pending + 1
    /\ UNCHANGED <<device, pipe, loadStatus, globalRng, frames, log>>

\* GET /health
health_check ==
    /\ pending > 0
    /\ LoopFree
    /\ pending' = pending - 1
    /\ log' = Append(log,
          Exchange("health", NoneVal, Seen, NoneVal, << >>, NoneVal,
              Response(200, << >>,
                  Some([status |-> "ok", device |-> device,
                        model_loaded |-> pipe # NoneVal]))))
    /\ UNCHANGED <<device, pipe, loadStatus, globalRng, frames>>

\* GET /api/models
get_models_info ==
    /\ pending > 0
    /\ LoopFree
    /\ pending' = pending - 1
    /\ \E exists \in BOOLEAN :
        log' = Append(log,
          Exchange("models", NoneVal, Seen, NoneVal, << >>, NoneVal,
              Response(200, << >>,
                  Some([base_model |-> "runwayml/stable-diffusion-v1-5",
                        lora_adapter |-> IF exists THEN "loaded" ELSE "not_found",
                        device |-> device,
                        cuda_available |-> (device = "cuda")]))))
    /\ UNCHANGED <<device, pipe, loadStatus, globalRng, frames>>

\* POST /api/generate, from the start of the handler to the call pipe(...):
\* the two checks, start_time, the generator.
generate_image_call ==
    /\ pending > 0
    /\ LoopFree
    /\ pending' = pending - 1
    /\ \E body \in Bodies, now \in Instants, seeded \in BOOLEAN :
        LET pre == Precheck(pipe, body)
            generator == MakeGenerator(body.seed)
            failed == OnException(SeedingError)
        IN  IF pre # NoneVal
            THEN /\ log' = Append(log,
                      Exchange("generate", Some(body), Seen, NoneVal, << >>, NoneVal,
                          pre[1]))
                 /\ UNCHANGED <<pipe, frames>>
            ELSE IF body.seed # NoneVal /\ ~seeded
            THEN /\ log' = Append(log,
                      Exchange("generate", Some(body), Seen, Some(now), << >>,
                          Some(SeedingError), failed))
                 /\ pipe' = PipeAfterGenerate(pipe, failed)
                 /\ UNCHANGED frames
            ELSE /\ frames' = Append(frames,
                      [request |-> body, seen |-> Seen, start_time |-> now,
                       generator |-> generator,
                       call |-> Kwargs(body, generator), at |-> "pipe"])
                 /\ UNCHANGED <<pipe, log>>
    /\ UNCHANGED <<device, loadStatus, globalRng>>

\* POST /api/generate, from the return of pipe(...) to the response.
generate_image_return(k) ==
    /\ k \in DOMAIN frames
    /\ HoldsLoop(frames[k]) \/ LoopFree
    /\ \E outcome \in {"ok", "pipeline_raises", "encoding_raises"},
          now \in Instants, drew \in BOOLEAN :
        LET f == frames[k]
            image == Render(pipe, f.call, NoiseSource(f.generator, globalRng))
            img_base64 == B64(Png(image))
            generation_time == now - f.start_time
            raised == IF outcome = "pipeline_raises" THEN Some(PipelineError)
                      ELSE IF outcome = "encoding_raises" THEN Some(EncodingError)
                      ELSE NoneVal
            response ==
                IF raised # NoneVal THEN OnException(raised[1])
                ELSE Response(200, << >>,
                        Some(ImageGenerationResponse(
                            img_base64, f.start_time, generation_time)))
        IN  /\ outcome # "pipeline_raises" => drew
            /\ globalRng' = IF f.generator = NoneVal /\ drew
                            THEN Advance(globalRng) ELSE globalRng
            /\ log' = Append(log,
                  Exchange("generate", Some(f.request), f.seen,
                      Some(f.start_time), <<f.call>>, raised, response))
            /\ pipe' = PipeAfterGenerate(pipe, response)
    /\ frames' = RemoveAt(frames, k)
    /\ UNCHANGED <<device, loadStatus, pending>>

Next ==
    \/ startup_event
    \/ Accept
    \/ health_check
    \/ get_models_info
    \/ generate_image_call
    \/ \E k \in 1 .. MaxRequests : generate_image_return(k)

Spec == Init /\ [][Next]_vars

(* ----------------------------- properties ------------------------------ *)

Answered(kind) == {i \in DOMAIN log : log[i].kind = kind}
Generated == {i \in Answered("generate") : log[i].response.code = 200}
BodyOf(i) == log[i].response.body[1]
RequestOf(i) == log[i].request[1]

\* The image inside image_base64: base64 and PNG decoded.
ImageOf(i) == BodyOf(i).image_base64[1][2][2]

\* A prompt that is empty or holds whitespace only.
WhitespaceOnly(prompt) == \A k \in DOMAIN prompt : prompt[k] \in Whitespace

C2_NotLoadedAnswers503 ==
    \A i \in Answered("generate") :
        ~log[i].seen.loaded
            => /\ log[i].response = NotLoaded
               /\ log[i].calls = << >>

\* A request with an empty prompt was answered 503 while pipe was None.
C2_Witness ==
    \E i \in Answered("generate") :
        /\ ~log[i].seen.loaded
        /\ RequestOf(i).prompt = EmptyStr
        /\ log[i].response.code = 503

\* C3: with the model loaded, a generate request whose prompt is empty or
\* whitespace only is answered 400 "Prompt cannot be empty" without a call
\* of the pipeline; a request whose prompt holds a character that is not
\* whitespace is never answered 400.
C3_BlankPromptAnswers400 ==
    \A i \in Answered("generate") :
        /\ (log[i].seen.loaded /\ WhitespaceOnly(RequestOf(i).prompt))
               => /\ log[i].response = EmptyPrompt
                  /\ log[i].calls = << >>
        /\ ~WhitespaceOnly(RequestOf(i).prompt) => log[i].response.code # 400

\* With the model loaded, a prompt of whitespace was answered 400 and a
\* prompt with whitespace around a letter was answered with an image.
C3_Witness ==
    /\ \E i \in Answered("generate") :
        /\ log[i].seen.loaded
        /\ RequestOf(i).prompt = <<" ", "\t">>
        /\ log[i].response.code = 400
    /\ \E j \in Generated : RequestOf(j).prompt = <<" ", "a", " ">>

\* C4: an exception raised while an accepted generate request is handled
\* does not leave the handler: the request is answered 500 with the detail
\* "Error generating image: <message>", pipe stays loaded, and a generate
\* request answered later is served by that same pipeline.
C4_ExceptionsBecome500 ==
    \A i \in Answered("generate") :
        log[i].raised # NoneVal
            => /\ ~log[i].escaped
               /\ log[i].response =
                      HTTPException(500,
                          <<"Error generating image: ", log[i].raised[1].msg>>)
               /\ pipe # NoneVal
               /\ \A j \in Answered("generate") :
                      j > i => /\ log[j].seen.loaded
                               /\ j \in Generated => ImageOf(j).model = pipe

\* The encoding raised for one request, and a later one got its image.
C4_Witness ==
    \E i \in Answered("generate"), j \in Generated :
        /\ i < j
        /\ log[i].raised = Some(EncodingError)
        /\ log[i].response.code = 500

\* C5: with the model loaded, a non-blank prompt and no exception, the
\* request is answered with success = true, the base64 of the PNG of the
\* image, error = null, timestamp = its start time and generation_time >= 0;
\* the pipeline was called once, with the request's values unchanged and a
\* null negative_prompt replaced by "".
C5_SuccessResponse ==
    \A i \in Answered("generate") :
        (/\ log[i].seen.loaded
         /\ ~WhitespaceOnly(RequestOf(i).prompt)
         /\ log[i].raised = NoneVal)
            => /\ log[i].response.code = 200
               /\ BodyOf(i).success
               /\ BodyOf(i).image_base64 # NoneVal
               /\ BodyOf(i).image_base64[1][1] = "base64"
               /\ BodyOf(i).image_base64[1][2][1] = "PNG"
               /\ BodyOf(i).error = NoneVal
               /\ BodyOf(i).timestamp = IsoFormat(log[i].start_time[1])
               /\ BodyOf(i).generation_time >= 0
               /\ Len(log[i].calls) = 1
               /\ ImageOf(i).kwargs = log[i].calls[1]
               /\ log[i].calls[1].prompt = RequestOf(i).prompt
               /\ log[i].calls[1].num_inference_steps =
                      RequestOf(i).num_inference_steps
               /\ log[i].calls[1].guidance_scale = RequestOf(i).guidance_scale
               /\ log[i].calls[1].height = RequestOf(i).height
               /\ log[i].calls[1].width = RequestOf(i).width
               /\ log[i].calls[1].negative_prompt =
                      IF RequestOf(i).negative_prompt = NoneVal
                      THEN EmptyStr
                      ELSE RequestOf(i).negative_prompt[1]

\* C6: pipe starts as None, changes only when load_model runs at startup,
\* from None to a pipeline, and no step that answers a request changes it.
C6_PipeSetOnlyByLoadModel ==
    /\ pipe = NoneVal
    /\ [][/\ pipe' # pipe
              => /\ pipe = NoneVal
                 /\ loadStatus = "not_started"
                 /\ loadStatus' # "not_started"
                 /\ log' = log
          /\ Len(log') > Len(log) => pipe' = pipe]_vars

\* The model is loaded, a generate request failed with 500 and a /health
\* request was answered.
C6_Witness ==
    /\ pipe # NoneVal
    /\ \E i \in Answered("generate") : log[i].response.code = 500
    /\ Answered("health") # {}

\* C7: /health answers status "ok" with model_loaded true exactly when
\* load_model has completed without raising; after load_model raised,
\* model_loaded is false and generate answers 503.
C7_HealthReportsLoadCompleted ==
    /\ \A i \in Answered("health") :
        /\ log[i].response.code = 200
        /\ BodyOf(i).status = "ok"
        /\ BodyOf(i).model_loaded = (log[i].seen.load = "loaded")
    /\ \A i \in Answered("generate") :
        log[i].seen.load = "failed" => log[i].response.code = 503

\* C8: at most one generate_image is inside the pipeline call; while one
\* is, no other handler starts and no other request is answered.
C8_GenerationsDoNotOverlap ==
    /\ [](Len(frames) <= 1)
    /\ [][/\ frames # << >>
              => /\ pending' >= pending
                 /\ Len(frames') <= Len(frames)
          /\ Len(log') > Len(log)
              => \/ frames = << >>
                 \/ Len(frames) = 1 /\ frames' = << >>]_vars

\* A generation is in progress while another request waits.
C8_Witness == Len(frames) = 1 /\ pending > 0

====
